---------------------------- MODULE Spec2Model ----------------------------
(***************************************************************************)
(* Model of src/mcp/mcp_client.py: the command-line entry point main and   *)
(* the two demo flows demo_stdio_client and demo_http_client.  Every await *)
(* of a flow is one step.  The MCP library (stdio_client,                  *)
(* streamablehttp_client, ClientSession) is the environment: each of its   *)
(* operations either succeeds or raises an exception derived from          *)
(* Exception, and list_tools answers with any listing of ToolListings.     *)
(***************************************************************************)
EXTENDS Integers, Sequences, FiniteSets, TLC

(***************************************************************************)
(* Bounds of the model.                                                    *)
(***************************************************************************)
MaxTools == 2   \* longest tool listing a server answers with
MaxProps == 2   \* most properties of a generated input schema

(***************************************************************************)
(* Python values.  Optional[x] is a sequence of length 0 (None) or 1.      *)
(* A str the code inspects character by character (a tool name) is a       *)
(* sequence of one-character strings; a dict is a function on its keys.    *)
(***************************************************************************)
None == <<>>
Some(x) == <<x>>
EmptyDict == [k \in {} |-> None]

PyStr(s) == <<"str", s>>
PyInt42 == <<"int", "42">>
PyFloat314 == <<"float", "3.14">>

UpperLetters == <<"A","B","C","D","E","F","G","H","I","J","K","L","M",
                  "N","O","P","Q","R","S","T","U","V","W","X","Y","Z">>
LowerLetters == <<"a","b","c","d","e","f","g","h","i","j","k","l","m",
                  "n","o","p","q","r","s","t","u","v","w","x","y","z">>

\* str.lower() on one character
LowerChar(c) ==
    IF \E i \in 1..Len(UpperLetters) : UpperLetters[i] = c
    THEN LowerLetters[CHOOSE i \in 1..Len(UpperLetters) : UpperLetters[i] = c]
    ELSE c

\* tool_name.lower()
Lower(s) == [i \in 1..Len(s) |-> LowerChar(s[i])]

\* sub in s
Contains(sub, s) ==
    \E i \in 1..(Len(s) - Len(sub) + 1) : SubSeq(s, i, i + Len(sub) - 1) = sub

\* truth value of an Optional[str] held as a character sequence
TruthyName(o) == o # None /\ Len(o[1]) > 0

\* truth value of an Optional[str] held as a string
TruthyStr(o) == o # None /\ o[1] # ""

\* d.get(k)
Get(d, k) == IF k \in DOMAIN d THEN Some(d[k]) ELSE None

(***************************************************************************)
(* Configuration defaults (module level of the source).                    *)
(***************************************************************************)
DEFAULT_DOCKER_IMAGE == "alpine/socat"
DEFAULT_MCP_HOST == "host.docker.internal"
DEFAULT_MCP_PORT == 8811

(***************************************************************************)
(* Inputs: command lines and server answers.                               *)
(***************************************************************************)
NameA == <<"a">>
NameB == <<"b">>
NameZ == <<"z">>
NameEchoTool == <<"E","c","h","o","T","o","o","l">>
NameUppercase == <<"u","p","p","e","r","c","a","s","e">>

Hosts == {DEFAULT_MCP_HOST, "10.0.0.5"}
Ports == {DEFAULT_MCP_PORT}
Images == {DEFAULT_DOCKER_IMAGE}
HttpUrls == {None, Some(""), Some("http://localhost:8000/mcp")}
ToolOptions == {None, Some(<<>>), Some(NameB), Some(NameZ)}

\* argparse's namespace after parse_args
ArgSpace ==
    [host : Hosts, port : Ports, docker_image : Images,
     list_tools : BOOLEAN, tool : ToolOptions, http_url : HttpUrls]

\* a property definition of an input schema, with or without a type tag
PropDefs ==
    {[type |-> "string"], [type |-> "integer"], [type |-> "number"],
     [type |-> "boolean"], [description |-> "untyped"]}
PropNameSeq == <<"p", "q", "r", "s">>
PropNames == {PropNameSeq[i] : i \in 1..MaxProps}

\* schema["properties"]: every map of at most MaxProps names to definitions
PropertyMaps == UNION {[S -> PropDefs] : S \in SUBSET PropNames}

\* a schema with one property of every kind
MixedProperties ==
    [s |-> [type |-> "string"], i |-> [type |-> "integer"],
     n |-> [type |-> "number"], b |-> [type |-> "boolean"],
     u |-> [description |-> "untyped"]]

\* Tool.inputSchema: empty, without "properties", or with them
Schemas ==
    {EmptyDict, [type |-> "object"]}
    \cup {[type |-> "object", properties |-> P] : P \in PropertyMaps}

Tool(n, s) == [name |-> n, inputSchema |-> s]

\* listings that vary the names and their order
NamedTools ==
    {Tool(n, [type |-> "object", properties |-> MixedProperties]) :
        n \in {NameA, NameB, NameEchoTool, NameUppercase}}

RECURSIVE SeqsUpTo(_, _)
SeqsUpTo(S, n) ==
    IF n = 0 THEN {<<>>}
    ELSE LET shorter == SeqsUpTo(S, n - 1)
         IN  shorter \cup {Append(q, x) : q \in shorter, x \in S}

\* listings that vary the schema of the tool
SchemaListings == {<<Tool(NameA, s)>> : s \in Schemas}

\* ListToolsResult.tools
ToolListings == SeqsUpTo(NamedTools, MaxTools) \cup SchemaListings

\* exception classes an operation of the library raises
Errors == {"ConnectionError", "McpError"}
OK == "ok"
Outcomes == {OK} \cup Errors

\* isinstance(e, cls) for e of class k
IsInstance(k, cls) == cls = "Exception" \/ cls = k

\* an except clause list catches an exception of class k
Catches(handlers, k) == \E i \in 1..Len(handlers) : IsInstance(k, handlers[i])

\* index of the first except clause that catches k
FirstHandler(handlers, k) ==
    CHOOSE i \in 1..Len(handlers) :
        /\ IsInstance(k, handlers[i])
        /\ \A j \in 1..(i - 1) : ~IsInstance(k, handlers[j])

(***************************************************************************)
(* Pure parts of the flows.                                                *)
(***************************************************************************)
\* the socat bridge command line; f"TCP:{host}:{port}" is kept as a triple
DockerArgs(a) ==
    <<"run", "-i", "--rm", a.docker_image, "STDIO", <<"TCP", a.host, a.port>> >>

ServerParams(a) == [command |-> "docker", args |-> DockerArgs(a), env |-> None]

\* main's choice of flow
UseHttp(a) == TruthyStr(a.http_url)

\* Variant: a name that is not listed falls back to the first listed tool.
SelectedToolName_OnlyIfListed(tool_name, listed) ==
    IF /\ TruthyName(tool_name)
       /\ listed # None
       /\ \E i \in 1..Len(listed[1]) : listed[1][i].name = tool_name[1]
    THEN tool_name
    ELSE IF listed # None /\ Len(listed[1]) > 0
         THEN Some(listed[1][1].name)
         ELSE None

\* "Determine which tool to call": the name given, else the first listed
SelectedToolName(tool_name, listed) ==
    IF ~TruthyName(tool_name) /\ listed # None /\ Len(listed[1]) > 0
    THEN Some(listed[1][1].name)
    ELSE tool_name

\* next((t for t in tools.tools if t.name == selected_tool_name), None)
FindTool(listing, name) ==
    IF \E i \in 1..Len(listing) : listing[i].name = name
    THEN Some(listing[CHOOSE i \in 1..Len(listing) :
                  /\ listing[i].name = name
                  /\ \A j \in 1..(i - 1) : listing[j].name # name])
    ELSE None

\* Variant: a property without a recognized type is defaulted to None.
ExampleFor_NullDefault(prop_def) ==
    IF Get(prop_def, "type") = Some("string") THEN Some(PyStr("example"))
    ELSE IF Get(prop_def, "type") = Some("integer") THEN Some(PyInt42)
    ELSE IF Get(prop_def, "type") = Some("number") THEN Some(PyFloat314)
    ELSE Some(<<"NoneType", "None">>)

\* the if/elif chain on prop_def.get("type"): the example value, if any
ExampleFor(prop_def) ==
    IF Get(prop_def, "type") = Some("string") THEN Some(PyStr("example"))
    ELSE IF Get(prop_def, "type") = Some("integer") THEN Some(PyInt42)
    ELSE IF Get(prop_def, "type") = Some("number") THEN Some(PyFloat314)
    ELSE None

\* d[k] = v
Put(d, k, v) == [x \in (DOMAIN d) \cup {k} |-> IF x = k THEN v ELSE d[x]]

\* the loop over schema["properties"].items(), todo the keys still to visit
RECURSIVE SynthesizeLoop(_, _, _)
SynthesizeLoop(properties, todo, tool_args) ==
    IF todo = {} THEN tool_args
    ELSE LET prop_name == CHOOSE k \in todo : TRUE
             example == ExampleFor(properties[prop_name])
         IN  SynthesizeLoop(properties, todo \ {prop_name},
                            IF example # None
                            THEN Put(tool_args, prop_name, example[1])
                            ELSE tool_args)

\* tool_args of the stdio flow
ToolArgs(listed, selected_tool_name) ==
    IF listed # None /\ Len(listed[1]) > 0
    THEN LET selected == FindTool(listed[1], selected_tool_name)
         IN  IF selected # None /\ DOMAIN selected[1].inputSchema # {}
             THEN LET schema == selected[1].inputSchema
                  IN  IF "properties" \in DOMAIN schema
                      THEN SynthesizeLoop(schema.properties,
                                          DOMAIN schema.properties, EmptyDict)
                      ELSE EmptyDict
             ELSE EmptyDict
    ELSE EmptyDict

EchoLiteral == <<"e","c","h","o">>

\* Variant: the test without .lower().
IsEchoTool_CaseSensitive(tool_name) == Contains(EchoLiteral, tool_name)

\* the HTTP flow's test of the tool name
IsEchoTool(tool_name) == Contains(EchoLiteral, Lower(tool_name))

\* arguments of the HTTP flow's call_tool
HttpToolArgs(tool_name) ==
    IF IsEchoTool(tool_name)
    THEN [k \in {"message"} |-> PyStr("Hello via HTTP!")]
    ELSE EmptyDict

\* Variant: the HTTP flow without its "except Exception" clause.
HttpHandlers_ConnectionOnly == <<"ConnectionError">>

\* except clauses of the flows, outermost try
StdioHandlers == <<"Exception">>
HttpHandlers == <<"ConnectionError", "Exception">>
\* except clause of every inner try
InnerHandlers == <<"Exception">>

StdioReports == <<"Stdio client error">>
HttpReports == <<"HTTP connection failed", "HTTP client error">>

(***************************************************************************)
(* State.                                                                  *)
(***************************************************************************)
VARIABLES
    pc,        \* position of the single flow of control
    args,      \* the parsed command line
    flows,     \* demo flows started, in order
    spawned,   \* server parameters handed to stdio_client (docker launches)
    acquired,  \* context managers entered, in order
    held,      \* context managers entered and not yet exited, innermost first
    released,  \* context managers exited, in order
    ops,       \* session operations attempted, in order
    calls,     \* call_tool invocations: name and arguments
    tools,     \* the local variable tools: None or the listing received
    exc,       \* the exception propagating, if any
    out,       \* error reports printed, in order
    raised,    \* operations of the library that raised, in order
    result     \* how main ended

vars == <<pc, args, flows, spawned, acquired, held, released, ops, calls,
          tools, exc, out, raised, result>>

Init ==
    /\ pc = "main"
    /\ args \in ArgSpace
    /\ flows = <<>>
    /\ spawned = <<>>
    /\ acquired = <<>>
    /\ held = <<>>
    /\ released = <<>>
    /\ ops = <<>>
    /\ calls = <<>>
    /\ tools = None
    /\ exc = None
    /\ out = <<>>
    /\ raised = <<>>
    /\ result = "running"

\* "async with cm as x": __aenter__ succeeds, or raises and the block and
\* its __aexit__ are skipped
Enter(cm, r, next, unwind) ==
    IF r = OK
    THEN /\ acquired' = Append(acquired, cm)
         /\ held' = <<cm>> \o held
         /\ pc' = next
         /\ UNCHANGED <<exc, raised>>
    ELSE /\ exc' = Some(r)
         /\ raised' = Append(raised, <<"enter", cm>>)
         /\ pc' = unwind
         /\ UNCHANGED <<acquired, held>>

\* leaving an "async with" block: __aexit__ of the innermost manager runs,
\* and may itself raise
Exit(r) ==
    /\ released' = Append(released, Head(held))
    /\ held' = Tail(held)
    /\ exc' = IF r = OK THEN exc ELSE Some(r)
    /\ raised' = IF r = OK THEN raised ELSE Append(raised, <<"exit", Head(held)>>)

\* "await session.<op>(...)" with outcome r, outside every inner try
Await(op, r, next, unwind) ==
    /\ ops' = Append(ops, op)
    /\ raised' = IF r = OK THEN raised ELSE Append(raised, <<"session", op>>)
    /\ exc' = IF r = OK THEN exc ELSE Some(r)
    /\ pc' = IF r = OK THEN next ELSE unwind

\* "try: await session.<op>(...) except <handlers>: print(msg)", outcome r
Try(op, r, handlers, msg, next, unwind) ==
    /\ ops' = Append(ops, op)
    /\ raised' = IF r = OK THEN raised ELSE Append(raised, <<"session", op>>)
    /\ out' = IF r # OK /\ Catches(handlers, r) THEN Append(out, msg) ELSE out
    /\ exc' = IF r # OK /\ ~Catches(handlers, r) THEN Some(r) ELSE exc
    /\ pc' = IF r # OK /\ ~Catches(handlers, r) THEN unwind ELSE next

\* the except clauses of a flow's outermost try
Handle(handlers, reports) ==
    IF Catches(handlers, exc[1])
    THEN /\ out' = Append(out, reports[FirstHandler(handlers, exc[1])])
         /\ exc' = None
    ELSE UNCHANGED <<out, exc>>

\* the variables no step of a flow changes
fixed == <<args, flows, spawned, result>>

(***************************************************************************)
(* main                                                                    *)
(***************************************************************************)
\* parse_args, then "if args.http_url:" starts one flow
Main ==
    /\ pc = "main"
    /\ IF UseHttp(args)
       THEN flows' = Append(flows, "http") /\ pc' = "http_streams"
       ELSE flows' = Append(flows, "stdio") /\ pc' = "stdio_streams"
    /\ UNCHANGED <<args, spawned, acquired, held, released, ops, calls, tools,
                   exc, out, raised, result>>

\* the flow is over: main returns, or the flow's exception leaves main
MainReturn ==
    /\ pc = "flow_end"
    /\ pc' = "done"
    /\ result' = IF exc = None THEN "returned" ELSE "raised"
    /\ UNCHANGED <<args, flows, spawned, acquired, held, released, ops, calls,
                   tools, exc, out, raised>>

(***************************************************************************)
(* demo_stdio_client                                                       *)
(***************************************************************************)
\* "async with stdio_client(server_params) as (read, write)"
StdioOpenStreams ==
    /\ pc = "stdio_streams"
    /\ spawned' = Append(spawned, ServerParams(args))
    /\ \E r \in Outcomes : Enter("streams", r, "stdio_session", "stdio_except")
    /\ UNCHANGED <<args, flows, result, released, ops, calls, tools, out>>

\* "async with ClientSession(read, write, ...) as session"
StdioOpenSession ==
    /\ pc = "stdio_session"
    /\ \E r \in Outcomes :
          Enter("session", r, "stdio_initialize", "stdio_exit_streams")
    /\ UNCHANGED <<fixed, released, ops, calls, tools, out>>

StdioInitialize ==
    /\ pc = "stdio_initialize"
    /\ \E r \in Outcomes :
          Await("initialize", r, "stdio_list_prompts", "stdio_exit_session")
    /\ UNCHANGED <<fixed, acquired, held, released, calls, tools, out>>

\* Variant: a failed list_prompts is reported and tried again.
StdioListPrompts_Retry ==
    /\ pc = "stdio_list_prompts"
    /\ \E r \in Outcomes :
          /\ ops' = Append(ops, "list_prompts")
          /\ raised' = IF r = OK THEN raised
                       ELSE Append(raised, <<"session", "list_prompts">>)
          /\ out' = IF r = OK THEN out ELSE Append(out, "Error listing prompts")
          /\ pc' = IF r = OK THEN "stdio_list_resources" ELSE "stdio_list_prompts"
    /\ UNCHANGED <<fixed, acquired, held, released, calls, tools, exc>>

StdioListPrompts ==
    /\ pc = "stdio_list_prompts"
    /\ \E r \in Outcomes :
          Try("list_prompts", r, InnerHandlers, "Error listing prompts",
              "stdio_list_resources", "stdio_exit_session")
    /\ UNCHANGED <<fixed, acquired, held, released, calls, tools>>

\* Variant: list_resources without its own try.
StdioListResources_NoTry ==
    /\ pc = "stdio_list_resources"
    /\ \E r \in Outcomes :
          Await("list_resources", r, "stdio_list_tools", "stdio_exit_session")
    /\ UNCHANGED <<fixed, acquired, held, released, calls, tools, out>>

StdioListResources ==
    /\ pc = "stdio_list_resources"
    /\ \E r \in Outcomes :
          Try("list_resources", r, InnerHandlers, "Error listing resources",
              "stdio_list_tools", "stdio_exit_session")
    /\ UNCHANGED <<fixed, acquired, held, released, calls, tools>>

\* "tools = None", then the try around list_tools
StdioListTools ==
    /\ pc = "stdio_list_tools"
    /\ \E r \in Outcomes :
          /\ Try("list_tools", r, InnerHandlers, "Error listing tools",
                 "stdio_listed", "stdio_exit_session")
          /\ IF r = OK
             THEN \E listing \in ToolListings : tools' = Some(listing)
             ELSE tools' = None
    /\ UNCHANGED <<fixed, acquired, held, released, calls>>

\* Variant: the return leaves the flow without leaving the async with blocks.
StdioListOnlyReturn_NoRelease ==
    /\ pc = "stdio_listed"
    /\ args.list_tools
    /\ pc' = "flow_end"
    /\ UNCHANGED <<fixed, acquired, held, released, ops, calls, tools, exc, out,
                   raised>>

\* "if list_only: return"
StdioListOnlyReturn ==
    /\ pc = "stdio_listed"
    /\ args.list_tools
    /\ pc' = "stdio_exit_session"
    /\ UNCHANGED <<fixed, acquired, held, released, ops, calls, tools, exc, out,
                   raised>>

\* tool selection, argument synthesis and the call, when a name is selected
StdioSelectAndCall ==
    LET selected_tool_name == SelectedToolName(args.tool, tools)
    IN  /\ TruthyName(selected_tool_name)
        /\ calls' = Append(calls,
               [name |-> selected_tool_name[1],
                arguments |-> ToolArgs(tools, selected_tool_name[1])])
        /\ \E r \in Outcomes :
              Try("call_tool", r, InnerHandlers, "Error calling tool",
                  "stdio_exit_session", "stdio_exit_session")
        /\ UNCHANGED <<fixed, acquired, held, released, tools>>

\* Variant: the tool is called without the list_only test before it.
StdioCallTool_NoListOnlyTest ==
    /\ pc = "stdio_listed"
    /\ StdioSelectAndCall

\* the code after "if list_only: return"
StdioCallTool ==
    /\ pc = "stdio_listed"
    /\ ~args.list_tools
    /\ StdioSelectAndCall

\* "if selected_tool_name:" is false
StdioNoTool ==
    /\ pc = "stdio_listed"
    /\ ~args.list_tools
    /\ ~TruthyName(SelectedToolName(args.tool, tools))
    /\ pc' = "stdio_exit_session"
    /\ UNCHANGED <<fixed, acquired, held, released, ops, calls, tools, exc, out,
                   raised>>

\* leaving the ClientSession block
StdioExitSession ==
    /\ pc = "stdio_exit_session"
    /\ \E r \in Outcomes : Exit(r)
    /\ pc' = "stdio_exit_streams"
    /\ UNCHANGED <<fixed, acquired, ops, calls, tools, out>>

\* leaving the stdio_client block
StdioExitStreams ==
    /\ pc = "stdio_exit_streams"
    /\ \E r \in Outcomes : Exit(r)
    /\ pc' = IF exc' # None THEN "stdio_except" ELSE "flow_end"
    /\ UNCHANGED <<fixed, acquired, ops, calls, tools, out>>

\* "except Exception as e: print(f"Stdio client error: {e}")"
StdioExcept ==
    /\ pc = "stdio_except"
    /\ Handle(StdioHandlers, StdioReports)
    /\ pc' = "flow_end"
    /\ UNCHANGED <<fixed, acquired, held, released, ops, calls, tools, raised>>

(***************************************************************************)
(* demo_http_client                                                        *)
(***************************************************************************)
\* "async with streamablehttp_client(server_url) as (read_stream, ...)"
HttpOpenStreams ==
    /\ pc = "http_streams"
    /\ \E r \in Outcomes : Enter("streams", r, "http_session", "http_except")
    /\ UNCHANGED <<fixed, released, ops, calls, tools, out>>

\* "async with ClientSession(read_stream, write_stream) as session"
HttpOpenSession ==
    /\ pc = "http_session"
    /\ \E r \in Outcomes :
          Enter("session", r, "http_initialize", "http_exit_streams")
    /\ UNCHANGED <<fixed, released, ops, calls, tools, out>>

HttpInitialize ==
    /\ pc = "http_initialize"
    /\ \E r \in Outcomes :
          Await("initialize", r, "http_list_tools", "http_exit_session")
    /\ UNCHANGED <<fixed, acquired, held, released, calls, tools, out>>

\* list_tools and "if tools.tools:" inside the try of the tool phase
HttpListTools ==
    /\ pc = "http_list_tools"
    /\ \E r \in Outcomes :
          IF r = OK
          THEN \E listing \in ToolListings :
                  /\ tools' = Some(listing)
                  /\ Try("list_tools", r, InnerHandlers, "Error with HTTP operations",
                         IF Len(listing) > 0 THEN "http_call_tool"
                         ELSE "http_list_resources",
                         "http_exit_session")
          ELSE /\ tools' = tools
               /\ Try("list_tools", r, InnerHandlers, "Error with HTTP operations",
                      "http_list_resources", "http_exit_session")
    /\ UNCHANGED <<fixed, acquired, held, released, calls>>

\* Variant: the resource listing sits in the try of the tool phase, so a
\* failed call is reported and skips it.
HttpCallTool_SkipsResources ==
    /\ pc = "http_call_tool"
    /\ LET tool_name == tools[1][1].name
       IN  /\ calls' = Append(calls,
                  [name |-> tool_name, arguments |-> HttpToolArgs(tool_name)])
           /\ \E r \in Outcomes :
                 /\ ops' = Append(ops, "call_tool")
                 /\ raised' = IF r = OK THEN raised
                              ELSE Append(raised, <<"session", "call_tool">>)
                 /\ out' = IF r = OK THEN out
                           ELSE Append(out, "Error with HTTP operations")
                 /\ pc' = IF r = OK THEN "http_list_resources" ELSE "http_exit_session"
    /\ UNCHANGED <<fixed, acquired, held, released, tools, exc>>

\* the call of the first listed tool, inside the same try
HttpCallTool ==
    /\ pc = "http_call_tool"
    /\ LET tool_name == tools[1][1].name
       IN  /\ calls' = Append(calls,
                  [name |-> tool_name, arguments |-> HttpToolArgs(tool_name)])
           /\ \E r \in Outcomes :
                 Try("call_tool", r, InnerHandlers, "Error with HTTP operations",
                     "http_list_resources", "http_exit_session")
    /\ UNCHANGED <<fixed, acquired, held, released, tools>>

HttpListResources ==
    /\ pc = "http_list_resources"
    /\ \E r \in Outcomes :
          Try("list_resources", r, InnerHandlers,
              "Error listing resources via HTTP",
              "http_exit_session", "http_exit_session")
    /\ UNCHANGED <<fixed, acquired, held, released, calls, tools>>

\* leaving the ClientSession block
HttpExitSession ==
    /\ pc = "http_exit_session"
    /\ \E r \in Outcomes : Exit(r)
    /\ pc' = "http_exit_streams"
    /\ UNCHANGED <<fixed, acquired, ops, calls, tools, out>>

\* leaving the streamablehttp_client block
HttpExitStreams ==
    /\ pc = "http_exit_streams"
    /\ \E r \in Outcomes : Exit(r)
    /\ pc' = IF exc' # None THEN "http_except" ELSE "flow_end"
    /\ UNCHANGED <<fixed, acquired, ops, calls, tools, out>>

\* "except ConnectionError as e: ... except Exception as e: ..."
HttpExcept ==
    /\ pc = "http_except"
    /\ Handle(HttpHandlers, HttpReports)
    /\ pc' = "flow_end"
    /\ UNCHANGED <<fixed, acquired, held, released, ops, calls, tools, raised>>

Next ==
    \/ Main
    \/ MainReturn
    \/ StdioOpenStreams
    \/ StdioOpenSession
    \/ StdioInitialize
    \/ StdioListPrompts
    \/ StdioListResources
    \/ StdioListTools
    \/ StdioListOnlyReturn
    \/ StdioCallTool
    \/ StdioNoTool
    \/ StdioExitSession
    \/ StdioExitStreams
    \/ StdioExcept
    \/ HttpOpenStreams
    \/ HttpOpenSession
    \/ HttpInitialize
    \/ HttpListTools
    \/ HttpCallTool
    \/ HttpListResources
    \/ HttpExitSession
    \/ HttpExitStreams
    \/ HttpExcept

Spec == Init /\ [][Next]_vars

(***************************************************************************)
(* Properties.  Auxiliary notions used to state them.                      *)
(***************************************************************************)
Range(s) == {s[i] : i \in DOMAIN s}

\* the tools of the listing received, none when list_tools failed or is ahead
Listed == IF tools = None THEN <<>> ELSE tools[1]

ListedNames == {Listed[i].name : i \in DOMAIN Listed}

\* a (non-empty) tool name was given on the command line
NameGiven == args.tool # None /\ Len(args.tool[1]) > 0

InStdio == flows = <<"stdio">>
InHttp == flows = <<"http">>
FlowOver == pc \in {"flow_end", "done"}

\* initialize was attempted and did not raise
Initialized == "initialize" \in Range(ops) /\ <<"session", "initialize">> \notin Range(raised)

Failed(op) == <<"session", op>> \in Range(raised)

StdioOrder == <<"initialize", "list_prompts", "list_resources", "list_tools", "call_tool">>
HttpOrder == <<"initialize", "list_tools", "call_tool", "list_resources">>

\* position of operation op in the fixed order, 0 when it is not in it
Position(order, op) ==
    IF op \in Range(order) THEN CHOOSE i \in DOMAIN order : order[i] = op ELSE 0

\* s lists operations of order, each at most once, in the order of order
LinearIn(s, order) ==
    /\ \A i \in DOMAIN s : Position(order, s[i]) > 0
    /\ \A i, j \in DOMAIN s : i < j => Position(order, s[i]) < Position(order, s[j])

(***************************************************************************)
(* C1 (as claimed): exactly one flow runs per invocation; whenever         *)
(* --http-url is provided, whatever its value, only the HTTP flow runs and *)
(* no docker subprocess is launched; when it is not provided only the      *)
(* stdio flow runs.                                                        *)
(***************************************************************************)
C1_HttpUrlProvidedRunsOnlyHttp ==
    /\ Len(flows) <= 1
    /\ (pc = "done" => Len(flows) = 1)
    /\ (args.http_url # None => "stdio" \notin Range(flows) /\ spawned = <<>>)
    /\ (args.http_url = None => "http" \notin Range(flows))

(***************************************************************************)
(* C2 (as claimed): in the stdio flow without list-only, the tool called   *)
(* is the named tool if a name was provided and is in the listing,         *)
(* otherwise the first listed tool; with no listed tools no call is made.  *)
(***************************************************************************)
C2_NamedIfListedElseFirst ==
    InStdio =>
        /\ \A i \in DOMAIN calls :
              /\ Listed # <<>>
              /\ calls[i].name =
                    IF args.tool # None /\ args.tool[1] \in ListedNames
                    THEN args.tool[1]
                    ELSE Listed[1].name
        /\ (Listed = <<>> => calls = <<>>)

(***************************************************************************)
(* C2 (amended): in the stdio flow without list-only, the tool called is   *)
(* the named tool whenever a non-empty name was provided, whether or not   *)
(* it is in the listing and also when the listing is empty or failed;      *)
(* otherwise it is the first listed tool; a call is made exactly once when *)
(* either gives a name, and no call is made when no non-empty name was     *)
(* provided and no tool is listed.                                         *)
(***************************************************************************)
C2_NamedElseFirstListed ==
    InStdio =>
        /\ \A i \in DOMAIN calls :
              IF NameGiven
              THEN calls[i].name = args.tool[1]
              ELSE Listed # <<>> /\ calls[i].name = Listed[1].name
        /\ (~NameGiven /\ Listed = <<>> => calls = <<>>)
        /\ (FlowOver /\ "list_tools" \in Range(ops) /\ ~args.list_tools
               /\ (NameGiven \/ Listed # <<>>)
            => Len(calls) = 1)

\* a named tool that is not listed was called, with two other tools listed
C2_Witness ==
    /\ pc = "done" /\ InStdio
    /\ args.tool = Some(NameZ)
    /\ Len(Listed) = 2 /\ NameZ \notin ListedNames
    /\ Len(calls) = 1 /\ calls[1].name = NameZ

(***************************************************************************)
(* C3: in the stdio flow with the list-only flag set, call_tool is never   *)
(* attempted, whatever was listed, whichever listing failed and whether or *)
(* not a tool name was given; the operations end with the three listings.  *)
(***************************************************************************)
C3_ListOnlyNeverCalls ==
    InStdio /\ args.list_tools =>
        /\ calls = <<>>
        /\ "call_tool" \notin Range(ops)
        /\ (FlowOver /\ Initialized
            => ops = <<"initialize", "list_prompts", "list_resources", "list_tools">>)

\* list-only run that listed two tools, with a tool name given
C3_Witness ==
    /\ pc = "done" /\ InStdio /\ args.list_tools
    /\ args.tool = Some(NameB)
    /\ Len(Listed) = 2 /\ NameB \in ListedNames
    /\ Failed("list_resources")
    /\ ops = <<"initialize", "list_prompts", "list_resources", "list_tools">>

(***************************************************************************)
(* C4: in the stdio flow, once initialize has succeeded, a failure of      *)
(* list_prompts, list_resources or list_tools is reported and every later  *)
(* listing is still attempted; the tool call still follows whenever a tool *)
(* is selected.                                                            *)
(***************************************************************************)
C4_StdioListingIsolation ==
    InStdio /\ Initialized /\ FlowOver =>
        /\ Len(ops) >= 4
        /\ SubSeq(ops, 1, 4) = <<"initialize", "list_prompts", "list_resources", "list_tools">>
        /\ (Failed("list_prompts") => "Error listing prompts" \in Range(out))
        /\ (Failed("list_resources") => "Error listing resources" \in Range(out))
        /\ (Failed("list_tools") => "Error listing tools" \in Range(out))
        /\ (~args.list_tools /\ (NameGiven \/ Listed # <<>>)
            => ops = StdioOrder /\ Len(calls) = 1)

\* list_resources failed, list_tools answered and the first tool was called
C4_Witness ==
    /\ pc = "done" /\ InStdio
    /\ Failed("list_resources") /\ ~Failed("list_tools")
    /\ args.tool = None
    /\ Len(calls) = 1 /\ calls[1].name = Listed[1].name

(***************************************************************************)
(* C5: in the stdio flow the arguments passed to call_tool have exactly    *)
(* one entry per property of the selected tool's input schema whose type   *)
(* tag is "string", "integer" or "number", with the values "example", 42   *)
(* and 3.14; a property with another or no type tag has no entry, and a    *)
(* tool that is not listed, or has no properties, is called with {}.       *)
(***************************************************************************)
C5_SelectedProperties ==
    LET name == calls[1].name
        first == CHOOSE i \in DOMAIN Listed :
                    Listed[i].name = name /\ \A j \in 1..(i - 1) : Listed[j].name # name
        schema == Listed[first].inputSchema
    IN  IF name \in ListedNames /\ "properties" \in DOMAIN schema
        THEN schema.properties
        ELSE EmptyDict

C5_Recognized == {"string", "integer", "number"}

C5_ArgumentSynthesis ==
    InStdio /\ calls # <<>> =>
        LET props == C5_SelectedProperties
            arguments == calls[1].arguments
        IN  /\ DOMAIN arguments =
                  {p \in DOMAIN props :
                      "type" \in DOMAIN props[p] /\ props[p].type \in C5_Recognized}
            /\ \A p \in DOMAIN arguments :
                  /\ props[p].type = "string" => arguments[p] = <<"str", "example">>
                  /\ props[p].type = "integer" => arguments[p] = <<"int", "42">>
                  /\ props[p].type = "number" => arguments[p] = <<"float", "3.14">>

\* the tool called has a string, an integer, a number, a boolean and an
\* untyped property, and is called with three arguments
C5_Witness ==
    /\ pc = "done" /\ InStdio /\ Len(calls) = 1
    /\ C5_SelectedProperties = MixedProperties
    /\ DOMAIN calls[1].arguments = {"s", "i", "n"}

(***************************************************************************)
(* C6: in the HTTP flow, when the listing is non-empty exactly the first   *)
(* listed tool is called, once, with {"message": "Hello via HTTP!"} if its *)
(* name contains "echo" in any letter case and with {} otherwise; when the *)
(* listing is empty (or failed) no call is made.                           *)
(***************************************************************************)
C6_EchoAt(name, i) ==
    /\ i + 3 <= Len(name)
    /\ name[i] \in {"e", "E"}
    /\ name[i + 1] \in {"c", "C"}
    /\ name[i + 2] \in {"h", "H"}
    /\ name[i + 3] \in {"o", "O"}

C6_HttpCallsFirstTool ==
    InHttp =>
        /\ Len(calls) <= 1
        /\ (Listed = <<>> => calls = <<>>)
        /\ (Listed # <<>> /\ (FlowOver \/ pc = "http_list_resources") => Len(calls) = 1)
        /\ \A c \in DOMAIN calls :
              /\ calls[c].name = Listed[1].name
              /\ IF \E i \in DOMAIN calls[c].name : C6_EchoAt(calls[c].name, i)
                 THEN /\ DOMAIN calls[c].arguments = {"message"}
                      /\ calls[c].arguments["message"] = <<"str", "Hello via HTTP!">>
                 ELSE DOMAIN calls[c].arguments = {}

\* "EchoTool" listed first and called with the greeting
C6_Witness ==
    /\ pc = "done" /\ InHttp
    /\ Len(Listed) = 2 /\ Listed[1].name = NameEchoTool
    /\ Len(calls) = 1 /\ calls[1].name = NameEchoTool
    /\ DOMAIN calls[1].arguments = {"message"}

(***************************************************************************)
(* C7: when a flow ends, on every exit path, every context manager it      *)
(* entered has been exited, the session before the stream pair.            *)
(***************************************************************************)
C7_ReleasedOnEveryExit ==
    pc \in {"stdio_except", "http_except", "flow_end", "done"} =>
        /\ held = <<>>
        /\ Len(released) = Len(acquired)
        /\ Range(released) = Range(acquired)
        /\ ("session" \in Range(acquired) => released = <<"session", "streams">>)

\* the early return of list-only mode, session and streams released in order
C7_Witness ==
    /\ pc = "done" /\ InStdio /\ args.list_tools
    /\ "list_tools" \in Range(ops)
    /\ acquired = <<"streams", "session">>
    /\ released = <<"session", "streams">>

(***************************************************************************)
(* C8: no error of a transport or session operation leaves a flow: an      *)
(* error no inner handler takes is caught by the flow's outermost handler  *)
(* and reported, and main returns normally whatever the error was.         *)
(***************************************************************************)
C8_OuterFailure ==
    \E i \in DOMAIN raised :
        \/ raised[i][1] \in {"enter", "exit"}
        \/ raised[i] = <<"session", "initialize">>

C8_NoErrorLeavesAFlow ==
    /\ (FlowOver => exc = None)
    /\ (pc = "done" => result = "returned")
    /\ (FlowOver /\ C8_OuterFailure /\ InStdio
        => out # <<>> /\ out[Len(out)] = "Stdio client error")
    /\ (FlowOver /\ C8_OuterFailure /\ InHttp
        => out # <<>> /\ out[Len(out)] \in {"HTTP connection failed", "HTTP client error"})
    /\ (FlowOver /\ ~C8_OuterFailure
        => \A i \in DOMAIN out :
              out[i] \notin {"Stdio client error", "HTTP connection failed",
                             "HTTP client error"})

\* an HTTP run whose connection failed, reported, and main returned
C8_Witness ==
    /\ pc = "done" /\ InHttp /\ result = "returned"
    /\ raised = << <<"enter", "streams">> >>
    /\ out = <<"HTTP connection failed">>

(***************************************************************************)
(* C9: in the HTTP flow, once initialize has succeeded, list_resources is  *)
(* attempted exactly once, after the tool phase, whether list_tools or     *)
(* call_tool succeeded or failed; their failure and the failure of         *)
(* list_resources are reported, the tool phase is not repeated, and the    *)
(* flow ends normally.                                                     *)
(***************************************************************************)
C9_HttpResourcesAfterToolPhase ==
    InHttp /\ Initialized /\ FlowOver =>
        /\ ops \in {<<"initialize", "list_tools", "list_resources">>,
                    <<"initialize", "list_tools", "call_tool", "list_resources">>}
        /\ (Failed("list_tools") \/ Failed("call_tool")
            => "Error with HTTP operations" \in Range(out))
        /\ (Failed("list_resources")
            => "Error listing resources via HTTP" \in Range(out))
        /\ exc = None

\* call_tool failed and list_resources was still attempted, and failed too
C9_Witness ==
    /\ pc = "done" /\ InHttp /\ result = "returned"
    /\ Failed("call_tool") /\ Failed("list_resources")
    /\ ops = HttpOrder
    /\ out = <<"Error with HTTP operations", "Error listing resources via HTTP">>

(***************************************************************************)
(* C10: the session operations attempted in a run follow the fixed order   *)
(* of the flow, initialize first, each at most once, also after a failure; *)
(* if initialize fails nothing else is attempted.                          *)
(***************************************************************************)
C10_LinearOperations ==
    /\ (InStdio => LinearIn(ops, StdioOrder))
    /\ (InHttp => LinearIn(ops, HttpOrder))
    /\ (ops # <<>> => ops[1] = "initialize")
    /\ (Failed("initialize") => ops = <<"initialize">>)

\* a stdio run with every operation attempted once although two failed
C10_Witness ==
    /\ pc = "done" /\ InStdio
    /\ ops = StdioOrder
    /\ Failed("list_prompts") /\ Failed("call_tool")

=============================================================================
